---- MODULE Spec2Model ----
(***************************************************************************)
(* Model of the keyboard-navigation hook useDatePickerNavigation           *)
(* (src/src/hooks/useDatePickerNavigation.ts) as a state machine.          *)
(*                                                                         *)
(* A Date object is a heap cell holding a time value.  The time value is   *)
(* kept in whole days since 1970-01-01 (the ECMAScript Day(t)); the time   *)
(* within the day is left out because setDate carries it over unchanged,   *)
(* and local time is taken with a zero offset.  getDate / setDate are the  *)
(* ECMAScript algorithms (YearFromTime, MonthFromTime, DateFromTime,       *)
(* MakeDay) on those day numbers.                                          *)
(*                                                                         *)
(* The hook is a React function component hook: useState keeps the         *)
(* committed state and a queue of pending updates, a render applies the    *)
(* queue and re-creates the handler closure over the rendered focusedDate. *)
(***************************************************************************)
EXTENDS Integers, Sequences, FiniteSets, TLC

VARIABLES
    heap,           \* Date objects: heap[id] is the time value (in days) of object id
    initialDate,    \* the Date object passed as the hook's argument
    hookState,      \* useState: the committed state (a Date object id)
    queue,          \* useState: updates enqueued by setFocusedDate, not yet rendered
    focusedDate,    \* the focusedDate the last render returned (a Date object id)
    handleKeyDown,  \* the handler the last render returned: its identity and the
                    \* focusedDate its closure captured
    invoked,        \* the handler closure the last keyboard event was handed to
    event,          \* the last keyboard event handed to the handler
    returned,       \* what the last handler call returned (a Date object id or Null)
    open,           \* the Context's open/closed flag of the panel
    nKeys,          \* number of key events handled so far
    moved,          \* history: the sum of the day offsets of the movement keys handled
    Provider,       \* the own members of the Provider component object: name -> value
    Datepicker      \* the object the exported constant Datepicker is bound to

\* the state of the hook and of the panel
hookVars == <<heap, initialDate, hookState, queue, focusedDate, handleKeyDown,
              invoked, event, returned, open, nKeys, moved>>

\* the state of the module that assembles the public export
exportVars == <<Provider, Datepicker>>

vars == <<heap, initialDate, hookState, queue, focusedDate, handleKeyDown,
          invoked, event, returned, open, nKeys, moved, Provider, Datepicker>>

----------------------------------------------------------------------------
(* Bounds of the model *)

\* key events handled in one behaviour
MaxKeys == 2
\* first calendar year the initial date is drawn from
FirstYear == 2024
\* number of consecutive years the initial date is drawn from
NumYears == 1

----------------------------------------------------------------------------
(* ECMAScript Date arithmetic, in days *)

\* the null result
Null == 0

\* the time value of an Invalid Date, and the number NaN
NaN == -2000000000

DaysInYear(y) ==
    IF y % 4 # 0 THEN 365
    ELSE IF y % 100 # 0 THEN 366
    ELSE IF y % 400 # 0 THEN 365
    ELSE 366

DayFromYear(y) ==
    365 * (y - 1970) + ((y - 1969) \div 4) - ((y - 1901) \div 100)
      + ((y - 1601) \div 400)

\* the largest year y with DayFromYear(y) <= t
YearFromTime(t) ==
    LET a == 1970 + (t \div 365)
        b == 1970 + (t \div 366)
        lo == (IF a < b THEN a ELSE b) - 1
        hi == (IF a < b THEN b ELSE a) + 1
    IN  CHOOSE y \in lo..hi : DayFromYear(y) <= t /\ t < DayFromYear(y + 1)

InLeapYear(t) == IF DaysInYear(YearFromTime(t)) = 366 THEN 1 ELSE 0

DayWithinYear(t) == t - DayFromYear(YearFromTime(t))

\* month number 0..11
MonthFromTime(t) ==
    LET d == DayWithinYear(t)
        l == InLeapYear(t)
    IN  IF d < 31 THEN 0
        ELSE IF d < 59 + l THEN 1
        ELSE IF d < 90 + l THEN 2
        ELSE IF d < 120 + l THEN 3
        ELSE IF d < 151 + l THEN 4
        ELSE IF d < 181 + l THEN 5
        ELSE IF d < 212 + l THEN 6
        ELSE IF d < 243 + l THEN 7
        ELSE IF d < 273 + l THEN 8
        ELSE IF d < 304 + l THEN 9
        ELSE IF d < 334 + l THEN 10
        ELSE 11

\* day of the month 1..31
DateFromTime(t) ==
    LET d == DayWithinYear(t)
        l == InLeapYear(t)
        m == MonthFromTime(t)
    IN  IF m = 0 THEN d + 1
        ELSE IF m = 1 THEN d - 30
        ELSE IF m = 2 THEN d - 58 - l
        ELSE IF m = 3 THEN d - 89 - l
        ELSE IF m = 4 THEN d - 119 - l
        ELSE IF m = 5 THEN d - 150 - l
        ELSE IF m = 6 THEN d - 180 - l
        ELSE IF m = 7 THEN d - 211 - l
        ELSE IF m = 8 THEN d - 242 - l
        ELSE IF m = 9 THEN d - 272 - l
        ELSE IF m = 10 THEN d - 303 - l
        ELSE d - 333 - l

\* days of the year before month mn (0..11) of year ym
DaysBeforeMonth(ym, mn) ==
    LET l == IF DaysInYear(ym) = 366 THEN 1 ELSE 0
    IN  IF mn = 0 THEN 0
        ELSE IF mn = 1 THEN 31
        ELSE <<59, 90, 120, 151, 181, 212, 243, 273, 304, 334>>[mn - 1] + l

\* MakeDay(year, month, date): the day number of the date-th day counted from the
\* first of the month; date may lie outside the month (0, negative, 32, ...)
MakeDay(year, month, date) ==
    LET ym == year + (month \div 12)
        mn == month % 12
    IN  DayFromYear(ym) + DaysBeforeMonth(ym, mn) + date - 1

\* Date.prototype.getDate on a time value
GetDate(t) == IF t = NaN THEN NaN ELSE DateFromTime(t)

\* the Gregorian leap-year rule
IsLeap(y) == (y % 4 = 0 /\ y % 100 # 0) \/ y % 400 = 0

\* days of month m (1..12) of year y
DaysInMonth(y, m) ==
    IF m = 2 THEN (IF IsLeap(y) THEN 29 ELSE 28)
    ELSE IF m \in {4, 6, 9, 11} THEN 30
    ELSE 31

\* setDate in a library that keeps the day inside the month instead of rolling over
SetDate_Clamped(t, date) ==
    LET y == YearFromTime(t)
        m == MonthFromTime(t)
        n == DaysInMonth(y, m + 1)
    IN  MakeDay(y, m, IF date < 1 THEN 1 ELSE IF date > n THEN n ELSE date)

\* Date.prototype.setDate(date) on a time value: the new time value
SetDate(t, date) ==
    IF t = NaN \/ date = NaN THEN NaN
    ELSE MakeDay(YearFromTime(t), MonthFromTime(t), date)

\* new Date(value) for a Date value: a new object with the same time value
NewDate(t) == t

\* the calendar date a Date object shows: <<getFullYear(), getMonth() + 1, getDate()>>
Civil(t) == <<YearFromTime(t), MonthFromTime(t) + 1, DateFromTime(t)>>

\* the time value of the calendar date y-m-d (m in 1..12), as new Date(y, m - 1, d)
DateOf(y, m, d) == MakeDay(y, m - 1, d)

----------------------------------------------------------------------------
(* Calendar days, counted one at a time *)

\* the calendar day after c = <<y, m, d>>
NextDay(c) ==
    IF c[3] < DaysInMonth(c[1], c[2]) THEN <<c[1], c[2], c[3] + 1>>
    ELSE IF c[2] < 12 THEN <<c[1], c[2] + 1, 1>>
    ELSE <<c[1] + 1, 1, 1>>

\* the calendar day before c = <<y, m, d>>
PrevDay(c) ==
    IF c[3] > 1 THEN <<c[1], c[2], c[3] - 1>>
    ELSE IF c[2] > 1 THEN <<c[1], c[2] - 1, DaysInMonth(c[1], c[2] - 1)>>
    ELSE <<c[1] - 1, 12, 31>>

RECURSIVE PlusDays(_, _)
PlusDays(c, n) == IF n = 0 THEN c ELSE PlusDays(NextDay(c), n - 1)

RECURSIVE MinusDays(_, _)
MinusDays(c, n) == IF n = 0 THEN c ELSE MinusDays(PrevDay(c), n - 1)

----------------------------------------------------------------------------
(* The hook *)

MovementKeys == {"ArrowLeft", "ArrowRight", "ArrowUp", "ArrowDown"}
ActivationKeys == {"Enter", " "}
\* keys the switch has no case for, among them a legacy name and another
\* spelling of handled keys
OtherKeys == {"Tab", "arrowleft", "Spacebar"}
Keys == MovementKeys \cup ActivationKeys \cup {"Escape"} \cup OtherKeys

NoKey == "(none)"
NoEvent == [key |-> NoKey, defaultPrevented |-> FALSE]
\* no handler invoked yet
NoHandler == [id |-> Null, focusedDate |-> Null]

\* the day offset each movement key stands for
KeyOffset(key) ==
    CASE key = "ArrowLeft"  -> 0 - 1
      [] key = "ArrowRight" -> 1
      [] key = "ArrowUp"    -> 0 - 7
      [] key = "ArrowDown"  -> 7
      [] OTHER              -> 0

\* ArrowDown moving one day, as ArrowRight does
SetDateArgument_DownOneDay(key, t) ==
    CASE key = "ArrowLeft"  -> GetDate(t) - 1
      [] key = "ArrowRight" -> GetDate(t) + 1
      [] key = "ArrowUp"    -> GetDate(t) - 7
      [] key = "ArrowDown"  -> GetDate(t) + 1

\* ArrowLeft and ArrowRight exchanged
SetDateArgument_LeftRightSwapped(key, t) ==
    CASE key = "ArrowLeft"  -> GetDate(t) + 1
      [] key = "ArrowRight" -> GetDate(t) - 1
      [] key = "ArrowUp"    -> GetDate(t) - 7
      [] key = "ArrowDown"  -> GetDate(t) + 7

\* the offsets applied to the day number 0 instead of to getDate()
SetDateArgument_NoGetDate(key, t) ==
    CASE key = "ArrowLeft"  -> 0 - 1
      [] key = "ArrowRight" -> 0 + 1
      [] key = "ArrowUp"    -> 0 - 7
      [] key = "ArrowDown"  -> 0 + 7

\* getDate named but not called: a function minus a number is NaN
SetDateArgument_GetDateNotCalled(key, t) == NaN

\* the argument of setDate in each movement case of the switch
SetDateArgument(key, t) ==
    CASE key = "ArrowLeft"  -> GetDate(t) - 1
      [] key = "ArrowRight" -> GetDate(t) + 1
      [] key = "ArrowUp"    -> GetDate(t) - 7
      [] key = "ArrowDown"  -> GetDate(t) + 7

\* the time value of newFocusedDate after the switch: the copy of focusedDate,
\* changed by setDate in the movement cases
NewFocusedDate(key, t) ==
    IF key \in MovementKeys THEN SetDate(NewDate(t), SetDateArgument(key, t))
    ELSE NewDate(t)

\* Enter and Space leaving the switch by break instead of returning
Breaks_Activation(key) == key \in MovementKeys \cup ActivationKeys

\* Escape leaving the switch by break instead of returning
Breaks_Escape(key) == key \in MovementKeys \cup {"Escape"}

\* focusedDate changed in place before it is copied
HeapAfterMove_InPlace(h, fd, key) ==
    Append([h EXCEPT ![fd] = NewFocusedDate(key, h[fd])], NewFocusedDate(key, h[fd]))

\* the Date objects after a movement case: newFocusedDate is a new object, the
\* copy of focusedDate changed by setDate; no other object is written
HeapAfterMove(h, fd, key) == Append(h, NewFocusedDate(key, h[fd]))

\* the cases of the switch that end in break, so that control reaches the
\* statements after the switch (preventDefault, setFocusedDate, return null)
Breaks(key) == key \in MovementKeys

\* every key but Escape returning the focused date
SwitchReturn_DefaultFocused(key, fd) == IF key # "Escape" THEN fd ELSE Null

\* the value returned by the cases of the switch that return
SwitchReturn(key, fd) == IF key \in ActivationKeys THEN fd ELSE Null

\* the moved date returned after a movement
FinalReturn_Moved(newFocusedDate) == newFocusedDate

\* the value returned after the switch, newFocusedDate being the new object
FinalReturn(newFocusedDate) == Null

\* Escape closing the panel
EscapeOpen_Closes(o) == FALSE

\* what the Escape case does to the panel's open flag
EscapeOpen(o) == o

\* useState called without the initial date
UseStateInitial_Missing(arg) == Null

\* useState(initialDate) on the first render
UseStateInitial(arg) == arg

\* useState on a later render: the queued values are applied in order, each
\* replacing the state
UseState(state, q) == IF q = <<>> THEN state ELSE q[Len(q)]

\* the state taken from the initialDate argument again on every render
StateOnRerender_Reinitialised(state, q, arg) == arg

\* useState(arg) on a render after the first: the argument is ignored
StateOnRerender(state, q, arg) == UseState(state, q)

\* useCallback with an empty dependency list: the first closure is kept for good
UseCallback_NoDependencies(prev, fd) == prev

\* useCallback(fn, [focusedDate]): the previous handler is kept when the
\* dependency is the same object, otherwise a new closure is returned
UseCallback(prev, fd) ==
    IF prev.focusedDate = fd THEN prev
    ELSE [id |-> prev.id + 1, focusedDate |-> fd]

----------------------------------------------------------------------------
(* The public export *)

\* the imported bindings: each sub-component's implementation, named by the
\* module it is imported from
Imports ==
    [ Button |-> "./button/Button", Input |-> "./input/Input",
      Item |-> "./item/Item", Items |-> "./items/Items",
      Picker |-> "./picker/Picker" ]

\* the Provider component object imported from ./provider/Provider
ProviderObject == "./provider/Provider"

\* the constant before the module is evaluated
NotEvaluated == "(not evaluated)"

\* Items bound to the Item implementation
AttachedMembers_ItemsIsItem ==
    [ Picker |-> Imports.Picker, Input |-> Imports.Input,
      Button |-> Imports.Button, Items |-> Imports.Item, Item |-> Imports.Item ]

\* the object literal { Picker, Input, Button, Items, Item }
AttachedMembers ==
    [ Picker |-> Imports.Picker, Input |-> Imports.Input,
      Button |-> Imports.Button, Items |-> Imports.Items, Item |-> Imports.Item ]

\* the members of target after Object.assign(target, source): every member of
\* source is written to target, the others stay
ObjectAssign(target, source) ==
    [ n \in DOMAIN target \cup DOMAIN source |->
        IF n \in DOMAIN source THEN source[n] ELSE target[n] ]

\* members the Provider component may have before the export is assembled
PriorNames == {"displayName", "defaultProps", "contextTypes", "Picker", "Item"}
PriorValues == {"a", "b"}

\* a component object with no own members
NoMembers == [ n \in {} |-> "" ]

\* the export module has been evaluated, Provider having had no members
ModuleEvaluated ==
    /\ Provider = ObjectAssign(NoMembers, AttachedMembers)
    /\ Datepicker = ProviderObject

InitYears == FirstYear .. (FirstYear + NumYears - 1)

\* century years, the days around the epoch, and the ends of February and of
\* the year in a year that is not a leap year
EdgeDates ==
    { DateOf(1900, 2, 28), DateOf(1900, 3, 1), DateOf(2000, 2, 28),
      DateOf(2000, 2, 29), DateOf(2000, 3, 1), DateOf(1969, 12, 31),
      DateOf(1970, 1, 1), DateOf(1970, 1, 7),
      DateOf(2023, 2, 28), DateOf(2023, 3, 1), DateOf(2023, 3, 7),
      DateOf(2023, 12, 25), DateOf(2023, 12, 28), DateOf(2023, 12, 31) }

InitDates ==
    { DateOf(c[1], c[2], c[3]) :
        c \in { x \in InitYears \X (1..12) \X (1..31) :
                  x[3] <= DaysInMonth(x[1], x[2]) } }

\* the state after the hook's first render with initialDate, a Date of one of
\* the days in dates
InitWith(dates) ==
    \E t \in dates :
        /\ heap = <<t>>
        /\ initialDate = 1
        /\ hookState = UseStateInitial(1)
        /\ queue = <<>>
        /\ focusedDate = UseStateInitial(1)
        /\ handleKeyDown = [id |-> 1, focusedDate |-> UseStateInitial(1)]
        /\ invoked = NoHandler
        /\ event = NoEvent
        /\ returned = Null
        /\ open \in BOOLEAN
        /\ nKeys = 0
        /\ moved = 0
        /\ ModuleEvaluated

Init == InitWith(InitDates \cup EdgeDates)

\* a call handler(event) with event.key = key, handler being a closure some
\* render returned
Call(handler, key) ==
    LET fd == handler.focusedDate
        newFocusedDate == Len(heap) + 1
    IN  /\ nKeys < MaxKeys
        /\ nKeys' = nKeys + 1
        /\ invoked' = handler
        /\ moved' = moved + KeyOffset(key)
        /\ IF Breaks(key)
           THEN /\ event' = [key |-> key, defaultPrevented |-> TRUE]
                /\ heap' = HeapAfterMove(heap, fd, key)
                /\ queue' = Append(queue, newFocusedDate)
                /\ returned' = FinalReturn(newFocusedDate)
                /\ open' = open
           ELSE /\ event' = [key |-> key, defaultPrevented |-> FALSE]
                /\ returned' = SwitchReturn(key, fd)
                /\ open' = IF key = "Escape" THEN EscapeOpen(open) ELSE open
                /\ UNCHANGED <<heap, queue>>
        /\ UNCHANGED <<initialDate, hookState, focusedDate, handleKeyDown>>
        /\ UNCHANGED exportVars

\* handleKeyDown(event) with event.key = key, called on the handler of the
\* last render
HandleKeyDown(key) == Call(handleKeyDown, key)

KeyDown == \E key \in Keys : HandleKeyDown(key)

\* the re-render React schedules after setFocusedDate
Render ==
    /\ queue # <<>>
    /\ hookState' = UseState(hookState, queue)
    /\ queue' = <<>>
    /\ focusedDate' = UseState(hookState, queue)
    /\ handleKeyDown' = UseCallback(handleKeyDown, UseState(hookState, queue))
    /\ UNCHANGED <<heap, initialDate, invoked, event, returned, open, nKeys, moved>>
    /\ UNCHANGED exportVars

\* the Button part toggles the panel through the Context
ToggleOpen ==
    /\ open' = ~open
    /\ UNCHANGED <<heap, initialDate, hookState, queue, focusedDate,
                   handleKeyDown, invoked, event, returned, nKeys, moved>>
    /\ UNCHANGED exportVars

Next == KeyDown \/ Render \/ ToggleOpen

Spec == Init /\ [][Next]_vars

----------------------------------------------------------------------------
(* A caller that keeps the handler of the first render *)

\* the handleKeyDown the first render returned: its closure holds the initial date
ConstructionHandler == [id |-> 1, focusedDate |-> UseStateInitial(1)]

\* the caller hands a key event to the handler it captured at construction
CapturedKeyDown == \E key \in Keys : Call(ConstructionHandler, key)

NextCaptured == KeyDown \/ CapturedKeyDown \/ Render \/ ToggleOpen

SpecCaptured == InitWith(EdgeDates) /\ [][NextCaptured]_vars

----------------------------------------------------------------------------
(* A parent that renders the hook again, with the same or another argument *)

\* Date objects that may exist in one behaviour
MaxDates == 4

\* the days of the Date objects a parent passes on a later render
LaterArguments == { DateOf(2000, 1, 1), DateOf(2024, 12, 31) }

\* the hook function runs again with the Date object arg as initialDate; h is
\* the heap holding arg
RerenderWith(h, arg) ==
    /\ heap' = h
    /\ initialDate' = arg
    /\ hookState' = StateOnRerender(hookState, queue, arg)
    /\ queue' = <<>>
    /\ focusedDate' = StateOnRerender(hookState, queue, arg)
    /\ handleKeyDown' =
           UseCallback(handleKeyDown, StateOnRerender(hookState, queue, arg))
    /\ UNCHANGED <<invoked, event, returned, open, nKeys, moved>>
    /\ UNCHANGED exportVars

\* the parent renders again and passes the same Date object
RerenderSameArgument == RerenderWith(heap, initialDate)

\* the parent renders again and passes a new Date object
RerenderNewArgument ==
    /\ Len(heap) < MaxDates
    /\ \E t \in LaterArguments : RerenderWith(Append(heap, t), Len(heap) + 1)

NextRerender ==
    KeyDown \/ Render \/ ToggleOpen \/ RerenderSameArgument \/ RerenderNewArgument

SpecRerender == InitWith(EdgeDates) /\ [][NextRerender]_vars

----------------------------------------------------------------------------
(* Evaluation of the module that exports Datepicker *)

\* before the module is evaluated: Provider has any of the prior members, no
\* hook has been called
InitExport ==
    /\ \E S \in SUBSET PriorNames : Provider \in [S -> PriorValues]
    /\ Datepicker = NotEvaluated
    /\ heap = <<DateOf(FirstYear, 1, 1)>>
    /\ initialDate = 1
    /\ hookState = 1
    /\ queue = <<>>
    /\ focusedDate = 1
    /\ handleKeyDown = ConstructionHandler
    /\ invoked = NoHandler
    /\ event = NoEvent
    /\ returned = Null
    /\ open = FALSE
    /\ nKeys = 0
    /\ moved = 0

\* const Datepicker = Object.assign(Provider, { Picker, Input, Button, Items, Item })
EvaluateModule ==
    /\ Datepicker = NotEvaluated
    /\ Provider' = ObjectAssign(Provider, AttachedMembers)
    /\ Datepicker' = ProviderObject
    /\ UNCHANGED hookVars

NextExport == EvaluateModule

SpecExport == InitExport /\ [][NextExport]_vars

----------------------------------------------------------------------------
(* Steps and observations the properties speak of *)

\* a step in which handleKeyDown handles key k
Handles(k) == nKeys' = nKeys + 1 /\ event'.key = k

\* a step in which React renders the hook again
Renders == queue # <<>> /\ queue' = <<>>

\* the focused date the next render will expose
Upcoming == UseState(hookState, queue)

\* a handler call that leaves the hook's state, the Date objects and the panel alone
NoStateChange ==
    UNCHANGED <<heap, initialDate, hookState, queue, focusedDate, handleKeyDown, open>>

----------------------------------------------------------------------------
(* Movement keys *)

\* C1: handling ArrowRight with focused date D makes the focused date D plus
\* exactly one calendar day: the date the next render will expose is the day
\* after D, and the render that follows exposes it.
C1_ArrowRightAddsOneDay ==
    [][ /\ Handles("ArrowRight") =>
              Civil(heap'[Upcoming']) = NextDay(Civil(heap[focusedDate]))
        /\ (Renders /\ event.key = "ArrowRight") =>
              Civil(heap'[focusedDate']) = NextDay(Civil(heap[focusedDate])) ]_vars

\* ArrowRight from Feb 28 of a leap year, then from Feb 29, rendered each time
C1_Witness ==
    /\ event.key = "ArrowRight"
    /\ nKeys = 2
    /\ queue = <<>>
    /\ Civil(heap[initialDate]) = <<2024, 2, 28>>
    /\ Civil(heap[2]) = <<2024, 2, 29>>
    /\ Civil(heap[focusedDate]) = <<2024, 3, 1>>

\* C2: handling ArrowDown with focused date D makes the focused date D plus
\* exactly seven calendar days, also across the end of a month or a year.
C2_ArrowDownAddsSevenDays ==
    [][ /\ Handles("ArrowDown") =>
              Civil(heap'[Upcoming']) = PlusDays(Civil(heap[focusedDate]), 7)
        /\ (Renders /\ event.key = "ArrowDown") =>
              Civil(heap'[focusedDate']) = PlusDays(Civil(heap[focusedDate]), 7) ]_vars

\* ArrowDown from Dec 28 lands in the next year
C2_Witness ==
    /\ event.key = "ArrowDown"
    /\ queue = <<>>
    /\ Civil(heap[initialDate]) = <<2023, 12, 28>>
    /\ Civil(heap[focusedDate]) = <<2024, 1, 4>>

\* C3: handling ArrowLeft with focused date D makes the focused date D minus
\* exactly one calendar day, also from the first of a month and from Jan 1.
C3_ArrowLeftSubtractsOneDay ==
    [][ /\ Handles("ArrowLeft") =>
              Civil(heap'[Upcoming']) = PrevDay(Civil(heap[focusedDate]))
        /\ (Renders /\ event.key = "ArrowLeft") =>
              Civil(heap'[focusedDate']) = PrevDay(Civil(heap[focusedDate])) ]_vars

\* ArrowLeft from Mar 1 of a leap year lands on Feb 29
C3_Witness ==
    /\ event.key = "ArrowLeft"
    /\ queue = <<>>
    /\ Civil(heap[initialDate]) = <<2024, 3, 1>>
    /\ Civil(heap[focusedDate]) = <<2024, 2, 29>>

\* C4: handling ArrowUp with focused date D makes the focused date D minus
\* exactly seven calendar days, also from days 1..7 of a month.
C4_ArrowUpSubtractsSevenDays ==
    [][ /\ Handles("ArrowUp") =>
              Civil(heap'[Upcoming']) = MinusDays(Civil(heap[focusedDate]), 7)
        /\ (Renders /\ event.key = "ArrowUp") =>
              Civil(heap'[focusedDate']) = MinusDays(Civil(heap[focusedDate]), 7) ]_vars

\* ArrowUp from Jan 3 lands in December of the previous year
C4_Witness ==
    /\ event.key = "ArrowUp"
    /\ queue = <<>>
    /\ Civil(heap[initialDate]) = <<2024, 1, 3>>
    /\ Civil(heap[focusedDate]) = <<2023, 12, 27>>

----------------------------------------------------------------------------
(* Activation, Escape and other keys *)

\* C5: handling Enter or Space returns exactly the focused date the hook
\* exposes (the same Date object) and changes neither focusedDate nor any
\* other state of the hook.
C5_ActivationReturnsFocusedDate ==
    [][ (Handles("Enter") \/ Handles(" ")) =>
            /\ returned' = focusedDate
            /\ focusedDate' = focusedDate
            /\ Upcoming' = Upcoming
            /\ NoStateChange ]_vars

\* Space after a rendered ArrowRight returns the moved date
C5_Witness ==
    /\ event.key = " "
    /\ nKeys = 2
    /\ queue = <<>>
    /\ returned = focusedDate
    /\ Civil(heap[initialDate]) = <<2023, 12, 31>>
    /\ Civil(heap[returned]) = <<2024, 1, 1>>

\* C6: handling Escape returns null, leaves focusedDate unchanged and does
\* not touch the panel's open flag.
C6_EscapeReturnsNullAndKeepsPanel ==
    [][ Handles("Escape") =>
            /\ returned' = Null
            /\ focusedDate' = focusedDate
            /\ Upcoming' = Upcoming
            /\ open' = open
            /\ NoStateChange ]_vars

\* Escape handled as the second key while the panel is open
C6_Witness ==
    /\ event.key = "Escape"
    /\ nKeys = 2
    /\ returned = Null
    /\ open
    /\ focusedDate = initialDate

\* C7: handling a key the switch has no case for returns null and leaves
\* focusedDate unchanged; the call completes like any other.
C7_OtherKeysAreNoOps ==
    [][ \A k \in Keys \ (MovementKeys \cup ActivationKeys \cup {"Escape"}) :
            Handles(k) =>
                /\ returned' = Null
                /\ focusedDate' = focusedDate
                /\ Upcoming' = Upcoming
                /\ ~event'.defaultPrevented
                /\ NoStateChange ]_vars

\* a differently spelled arrow key handled after a rendered movement
C7_Witness ==
    /\ event.key = "arrowleft"
    /\ nKeys = 2
    /\ returned = Null
    /\ queue = <<>>
    /\ focusedDate = 2

\* C8: after construction and before any handleKeyDown call, focusedDate is
\* the initial date.
C8_ConstructedWithInitialDate ==
    nKeys = 0 =>
        /\ focusedDate = initialDate
        /\ hookState = initialDate
        /\ queue = <<>>
        /\ handleKeyDown.focusedDate = initialDate

\* the hook constructed with Feb 29, no key handled
C8_Witness ==
    /\ nKeys = 0
    /\ event = NoEvent
    /\ Civil(heap[focusedDate]) = <<2024, 2, 29>>

\* C9: the handled event's default action is suppressed if and only if its
\* key is one of the four movement keys.
C9_PreventDefaultIffMovement ==
    event # NoEvent => (event.defaultPrevented <=> event.key \in MovementKeys)

\* an ArrowDown event with its default action suppressed
C9_Witness ==
    /\ event.key = "ArrowDown"
    /\ event.defaultPrevented
    /\ queue # <<>>

\* C10: the handler returns a date only for Enter or Space; for each movement
\* key it returns null.
C10_DateOnlyOnActivation ==
    /\ returned # Null => event.key \in ActivationKeys
    /\ event.key \in MovementKeys => returned = Null

\* a movement handled after an activation: the result is null again
C10_Witness ==
    /\ event.key = "ArrowLeft"
    /\ nKeys = 2
    /\ Len(heap) = 2
    /\ returned = Null

----------------------------------------------------------------------------
(* Validity, lost key presses, immutability, inverse keys *)

\* c shifted by n calendar days, forward for n > 0 and back for n < 0
ShiftDays(c, n) == IF n >= 0 THEN PlusDays(c, n) ELSE MinusDays(c, 0 - n)

\* a Date object that shows a real calendar day
IsValidDate(t) ==
    /\ t # NaN
    /\ LET y == YearFromTime(t)
           m == MonthFromTime(t) + 1
           d == DateFromTime(t)
       IN  /\ m >= 1 /\ m <= 12
           /\ d >= 1 /\ d <= DaysInMonth(y, m)

\* C11: after any sequence of key events from a valid initial date, the
\* focused date (the exposed one and the one the next render will expose) is
\* a Date object showing a real calendar day, never absent.
C11_FocusedDateAlwaysValid ==
    /\ focusedDate \in 1..Len(heap)
    /\ IsValidDate(heap[focusedDate])
    /\ Upcoming \in 1..Len(heap)
    /\ Upcoming # focusedDate => IsValidDate(heap[Upcoming])

\* from Mar 1 of 1900, not a leap year, ArrowLeft then ArrowUp
C11_Witness ==
    /\ nKeys = 2
    /\ queue = <<>>
    /\ event.key = "ArrowUp"
    /\ Civil(heap[initialDate]) = <<1900, 3, 1>>
    /\ Civil(heap[2]) = <<1900, 2, 28>>
    /\ Civil(heap[focusedDate]) = <<1900, 2, 21>>

\* C14: no movement key press is lost: once every update is rendered, the
\* focused date is the date of construction shifted by the sum of the offsets
\* of all the movement keys handled, also of keys handled before a re-render.
C14_NoKeyPressLost ==
    queue = <<>> =>
        Civil(heap[focusedDate]) = ShiftDays(Civil(heap[1]), moved)

\* C15: handleKeyDown never changes a Date object that exists before the
\* call: the focused date, the initial date and every date returned or
\* exposed earlier still show the same day after it.
C15_DateObjectsNeverMutated ==
    [][ nKeys' = nKeys + 1 =>
            /\ Len(heap') >= Len(heap)
            /\ \A i \in 1..Len(heap) : heap'[i] = heap[i] ]_vars

\* ArrowRight twice from Feb 29, rendered in between: the object that was the
\* focused date at the second call still shows Mar 1, the initial one Feb 29
C15_Witness ==
    /\ nKeys = 2
    /\ event.key = "ArrowRight"
    /\ focusedDate = 2
    /\ queue = <<3>>
    /\ Civil(heap[initialDate]) = <<2024, 2, 29>>
    /\ Civil(heap[focusedDate]) = <<2024, 3, 1>>
    /\ Civil(heap[3]) = <<2024, 3, 2>>

\* C16: a movement key followed, after a re-render, by the opposite key and a
\* re-render brings the focused date back: with every movement rendered on its
\* own (one handler per Date object), n the newest object, object n-1 made by
\* key k1 from object n-2 and object n made by the opposite key, object n
\* shows the day object n-2 shows.
C16_OppositeKeysCancel ==
    LET n == Len(heap)
    IN  ( /\ n >= 3
          /\ handleKeyDown.id = n
          /\ focusedDate = n
          /\ queue = <<>>
          /\ event.key \in MovementKeys ) =>
            \A k1 \in MovementKeys :
                ( /\ KeyOffset(k1) + KeyOffset(event.key) = 0
                  /\ Civil(heap[n - 1]) = ShiftDays(Civil(heap[n - 2]), KeyOffset(k1)) )
                => /\ Civil(heap[n]) = Civil(heap[n - 2])
                   /\ heap[n] = heap[n - 2]

\* ArrowDown from Dec 28 into the next year, then ArrowUp back
C16_Witness ==
    /\ Len(heap) = 3
    /\ handleKeyDown.id = 3
    /\ focusedDate = 3
    /\ queue = <<>>
    /\ event.key = "ArrowUp"
    /\ Civil(heap[1]) = <<2023, 12, 28>>
    /\ Civil(heap[2]) = <<2024, 1, 4>>
    /\ Civil(heap[3]) = <<2023, 12, 28>>

----------------------------------------------------------------------------
(* The handler across renders *)

\* a step in which the handler captured at construction handles key k
CapturedHandles(k) == Handles(k) /\ invoked' = ConstructionHandler

\* C12 as stated: the handler of the first render stays the handler across
\* every focused-date change, and called later it moves from, and returns on
\* Enter or Space, the focused date the hook exposes at the time of the call.
C12_StableHandler ==
    [][ /\ handleKeyDown'.id = handleKeyDown.id
        /\ \A k \in MovementKeys :
              CapturedHandles(k) =>
                  Civil(heap'[Upcoming']) =
                      ShiftDays(Civil(heap[focusedDate]), KeyOffset(k))
        /\ \A k \in ActivationKeys :
              CapturedHandles(k) => returned' = focusedDate ]_vars

\* C12 amended: the handler is kept exactly while focusedDate is the same
\* object and replaced by every render that exposes a new focusedDate; the
\* handler of the last render holds the exposed focusedDate; the handler
\* captured at construction keeps acting on the date of construction: it moves
\* from that date and returns that object on Enter or Space.
C12_HandlerPerFocusedDate ==
    [][ /\ (handleKeyDown'.id = handleKeyDown.id) <=> (focusedDate' = focusedDate)
        /\ handleKeyDown'.focusedDate = focusedDate'
        /\ \A k \in MovementKeys :
              CapturedHandles(k) =>
                  Civil(heap'[Upcoming']) =
                      ShiftDays(Civil(heap[1]), KeyOffset(k))
        /\ \A k \in ActivationKeys :
              CapturedHandles(k) => returned' = 1 ]_vars

\* after a rendered ArrowRight from Dec 31, Enter on the captured handler
\* returns the Dec 31 object while the hook exposes Jan 1
C12_Witness ==
    /\ nKeys = 2
    /\ event.key = "Enter"
    /\ invoked = ConstructionHandler
    /\ handleKeyDown.id = 2
    /\ focusedDate = 2
    /\ returned = 1
    /\ Civil(heap[returned]) = <<2023, 12, 31>>
    /\ Civil(heap[focusedDate]) = <<2024, 1, 1>>

\* C17: the focused date changes only through a movement key: only a handled
\* movement key changes the date the next render will expose, a render exposes
\* exactly that date, and a render with the same or another initialDate
\* argument changes neither.
C17_OnlyMovementChangesFocus ==
    [][ /\ Upcoming' # Upcoming => \E k \in MovementKeys : Handles(k)
        /\ focusedDate' # focusedDate => (queue # <<>> /\ focusedDate' = Upcoming)
        /\ initialDate' # initialDate =>
              (Upcoming' = Upcoming /\ focusedDate' = Upcoming) ]_vars

\* the hook rendered again with a Date of 2000-01-01 after a rendered
\* ArrowLeft from Mar 1: it still exposes Feb 28
C17_Witness ==
    /\ nKeys = 1
    /\ event.key = "ArrowLeft"
    /\ queue = <<>>
    /\ focusedDate = 2
    /\ initialDate = 3
    /\ Civil(heap[1]) = <<2023, 3, 1>>
    /\ Civil(heap[focusedDate]) = <<2023, 2, 28>>
    /\ Civil(heap[initialDate]) = <<2000, 1, 1>>

----------------------------------------------------------------------------
(* The public export *)

SubComponents == {"Picker", "Input", "Button", "Items", "Item"}

\* C13: the exported Datepicker is the Provider object itself; each of its
\* members Picker, Input, Button, Items, Item is the implementation imported
\* under that name; every other member of Provider is as it was, and none is
\* added.
C13_ExportIsProviderWithParts ==
    [][ (Datepicker = NotEvaluated /\ Datepicker' # NotEvaluated) =>
            /\ Datepicker' = ProviderObject
            /\ \A n \in SubComponents :
                  n \in DOMAIN Provider' /\ Provider'[n] = Imports[n]
            /\ DOMAIN Provider' = DOMAIN Provider \cup SubComponents
            /\ \A n \in DOMAIN Provider \ SubComponents :
                  Provider'[n] = Provider[n] ]_vars

\* the export assembled on a Provider that had a displayName and no defaultProps
C13_Witness ==
    /\ Datepicker = ProviderObject
    /\ DOMAIN Provider = SubComponents \cup {"displayName"}
    /\ Provider["displayName"] = "a"
    /\ Provider["Items"] = Imports["Items"]
    /\ Provider["Item"] = Imports["Item"]
    /\ nKeys = 0

====
